---- MODULE Spec2Model ----
(***************************************************************************)
(* A model of the insights-client collection core:                         *)
(*   - DataCollector (src/insights/client/data_collector.py):              *)
(*       _blacklist_check, _run_pre_command, _parse_command_spec,          *)
(*       _parse_file_spec, _parse_glob_spec, run_collection, done          *)
(*   - InsightsArchive (src/insights/client/archive.py):                   *)
(*       update, create_tar_file, delete_*, cleanup_tmp                    *)
(*                                                                         *)
(* Python values: None is the string NoneV, a missing dict key is Absent.  *)
(* Shell text that the code tokenizes (pre-commands) is a sequence of      *)
(* one-character strings; other strings are TLA+ strings.                  *)
(***************************************************************************)
EXTENDS Naturals, Sequences, FiniteSets, TLC

NoneV == "<None>"
Absent == "<absent>"

(***************************************************************************)
(* shlex.split(s) in POSIX mode with whitespace_split and no commenters,   *)
(* as _blacklist_check uses it.                                            *)
(***************************************************************************)
Whitespace == {" ", "\t"}
EscapeChar == "\\"

\* The state of shlex's read_token loop after the character at i.
\* st: "ws" (' '), "word" ('a'), "sq", "dq" (inside quotes), "esc" (after a
\* backslash, esc naming the state to return to).  Returns
\* [err |-> a ValueError was raised, parts |-> the tokens].
RECURSIVE Lex(_, _, _, _, _, _, _)
Lex(s, i, st, esc, tok, quoted, acc) ==
    LET emit == IF tok # <<>> \/ quoted THEN Append(acc, tok) ELSE acc
    IN
    IF i > Len(s)
    THEN CASE st = "ws" -> [err |-> FALSE, parts |-> acc]
           [] st = "word" -> [err |-> FALSE, parts |-> emit]
           [] OTHER -> [err |-> TRUE, parts |-> <<>>]
    ELSE
      LET c == s[i] IN
      CASE st = "ws" ->
             IF c \in Whitespace THEN Lex(s, i + 1, "ws", esc, tok, quoted, acc)
             ELSE IF c = EscapeChar THEN Lex(s, i + 1, "esc", "word", tok, quoted, acc)
             ELSE IF c = "'" THEN Lex(s, i + 1, "sq", esc, tok, quoted, acc)
             ELSE IF c = "\"" THEN Lex(s, i + 1, "dq", esc, tok, quoted, acc)
             ELSE Lex(s, i + 1, "word", esc, <<c>>, quoted, acc)
        [] st = "sq" ->
             IF c = "'" THEN Lex(s, i + 1, "word", esc, tok, TRUE, acc)
             ELSE Lex(s, i + 1, "sq", esc, Append(tok, c), TRUE, acc)
        [] st = "dq" ->
             IF c = "\"" THEN Lex(s, i + 1, "word", esc, tok, TRUE, acc)
             ELSE IF c = EscapeChar THEN Lex(s, i + 1, "esc", "dq", tok, TRUE, acc)
             ELSE Lex(s, i + 1, "dq", esc, Append(tok, c), TRUE, acc)
        [] st = "esc" ->
             IF esc = "dq" /\ c # EscapeChar /\ c # "\""
             THEN Lex(s, i + 1, esc, esc, Append(Append(tok, EscapeChar), c), quoted, acc)
             ELSE Lex(s, i + 1, esc, esc, Append(tok, c), quoted, acc)
        [] OTHER -> \* st = "word"
             IF c \in Whitespace THEN Lex(s, i + 1, "ws", esc, <<>>, FALSE, emit)
             ELSE IF c = "'" THEN Lex(s, i + 1, "sq", esc, tok, quoted, acc)
             ELSE IF c = "\"" THEN Lex(s, i + 1, "dq", esc, tok, quoted, acc)
             ELSE IF c = EscapeChar THEN Lex(s, i + 1, "esc", "word", tok, quoted, acc)
             ELSE Lex(s, i + 1, "word", esc, Append(tok, c), quoted, acc)

shlex_split(s) == Lex(s, 1, "ws", "word", <<>>, FALSE, <<>>)

\* cmd.replace(';', ' ')
ReplaceSemicolons(s) == [i \in 1..Len(s) |-> IF s[i] = ";" THEN " " ELSE s[i]]

\* The fixed set of forbidden executable names (constants.command_blacklist).
command_blacklist ==
    { <<"r", "m">>, <<"k", "i", "l", "l">>,
      <<"r", "e", "b", "o", "o", "t">>,
      <<"s", "h", "u", "t", "d", "o", "w", "n">> }

\* _blacklist_check._get_nested_parts: the top-level tokens followed by the
\* nested parts of every token that re-tokenizes into more than one token.
\* err: a shlex.split call raised ValueError.
RECURSIVE _get_nested_parts(_)
RECURSIVE NestedOfParts(_, _, _)
NestedOfParts(parts, k, all) ==
    IF k > Len(parts) THEN [err |-> FALSE, parts |-> all]
    ELSE LET again == shlex_split(parts[k]) IN
         IF again.err THEN [err |-> TRUE, parts |-> <<>>]
         ELSE IF Len(again.parts) > 1
              THEN LET sub == _get_nested_parts(parts[k]) IN
                   IF sub.err THEN [err |-> TRUE, parts |-> <<>>]
                   ELSE NestedOfParts(parts, k + 1, all \o sub.parts)
              ELSE NestedOfParts(parts, k + 1, all)

_get_nested_parts(cmd) ==
    LET top == shlex_split(ReplaceSemicolons(cmd)) IN
    IF top.err THEN [err |-> TRUE, parts |-> <<>>]
    ELSE NestedOfParts(top.parts, 1, top.parts)

Range(q) == {q[i] : i \in DOMAIN q}

\* _blacklist_check(cmd): "ValueError" when tokenizing raised, else whether a
\* token is in command_blacklist.
_blacklist_check(cmd) ==
    LET cmd_parts == _get_nested_parts(cmd) IN
    IF cmd_parts.err THEN "ValueError"
    ELSE IF Range(cmd_parts.parts) \cap command_blacklist # {} THEN "True" ELSE "False"


(***************************************************************************)
(* The catalog (conf), the exclusion config (rm_conf) and the host.        *)
(***************************************************************************)

\* conf['pre_commands']: alias -> shell text.  "ls", "ls;rm" and "ls '".
pre_commands ==
    [ p_safe |-> <<"l", "s">>,
      p_rm |-> <<"l", "s", ";", "r", "m">>,
      p_quote |-> <<"l", "s", " ", "'">> ]

\* A key lookup precmds[alias] raises KeyError for an alias not in the table.
HasKey(table, key) == key \in DOMAIN table

CmdSpec(command, symbolic_name, pre_command, image) ==
    [command |-> command, symbolic_name |-> symbolic_name,
     pre_command |-> pre_command, image |-> image]

\* The command specs a catalog is drawn from.
CommandSpecs ==
    { CmdSpec("uptime", Absent, Absent, FALSE),
      CmdSpec("hostname", "hostname", Absent, FALSE),
      CmdSpec("hostname -f", "hostname", Absent, TRUE),
      CmdSpec("ls", "ls_sym", "p_safe", FALSE),
      CmdSpec("ls", Absent, "p_rm", FALSE),
      CmdSpec("ls", Absent, "p_quote", FALSE),
      CmdSpec("ls", Absent, "p_missing", FALSE),
      CmdSpec("img", "img_sym", Absent, TRUE) }

FileSpec(file, symbolic_name) == [file |-> file, symbolic_name |-> symbolic_name]
GlobSpec(glob, symbolic_name) == [glob |-> glob, symbolic_name |-> symbolic_name]

\* '*' in spec['file']
HasWildcard(path) == path \in {"/etc/*.conf"}

MaxCmds == 2

SeqsUpTo(S, n) == UNION {[1..k -> S] : k \in 0..n}

FileLists ==
    { <<>>,
      <<FileSpec("/etc/hosts", "hosts_sym")>>,
      <<FileSpec("/etc/*.conf", Absent)>>,
      <<FileSpec("/etc/*.conf", Absent), FileSpec("/etc/hosts", Absent)>> }

\* conf['globs'] is optional: has_globs is 'globs' in conf.
GlobLists ==
    { [has_globs |-> FALSE, globs |-> <<>>],
      [has_globs |-> TRUE, globs |-> <<>>],
      [has_globs |-> TRUE, globs |-> <<GlobSpec("/var/log/*.log", "logs_sym")>>] }

Catalog(commands, files, gl) ==
    [commands |-> commands, files |-> files,
     has_globs |-> gl.has_globs, globs |-> gl.globs]

DefaultFiles == <<FileSpec("/etc/hosts", "hosts_sym")>>
DefaultGlobs == [has_globs |-> TRUE, globs |-> <<GlobSpec("/var/log/*.log", "logs_sym")>>]
DefaultCommands == <<CmdSpec("uptime", Absent, Absent, FALSE)>>

\* rm_conf: is_none is rm_conf is None; keys are the keys present.
\* patterns: kind "list" (a flat list, items) or "dict" ({regex: items}; an
\* empty items stands for a regex value of None or []).
NoPatterns == [kind |-> "list", items |-> <<>>]
RmConf(keys, commands, files, patterns, keywords) ==
    [is_none |-> FALSE, keys |-> keys, commands |-> commands, files |-> files,
     patterns |-> patterns, keywords |-> keywords]
RmNone == [RmConf({}, <<>>, <<>>, NoPatterns, <<>>) EXCEPT !.is_none = TRUE]
RmCommands(l) == RmConf({"commands"}, l, <<>>, NoPatterns, <<>>)
RmFiles(l) == RmConf({"files"}, <<>>, l, NoPatterns, <<>>)
RmPatterns(p) == RmConf({"patterns"}, <<>>, <<>>, p, <<>>)

RmEmpty == RmConf({}, <<>>, <<>>, NoPatterns, <<>>)
RmBoth == RmConf({"commands", "files", "keywords"}, <<"uptime">>, <<"/etc/hosts">>,
                 NoPatterns, <<"secret">>)

CommandRmConfs ==
    { RmNone, RmEmpty, RmBoth,
      RmCommands(<<"uptime">>),
      RmCommands(<<"hostname">>),
      RmCommands(<<"ls a", "img_sym">>),
      RmCommands(<<"ls_sym">>) }

FileRmConfs ==
    { RmNone, RmBoth,
      RmFiles(<<"/etc/hosts">>),
      RmFiles(<<"hosts_sym", "/var/log/a.log">>),
      RmFiles(<<"/etc/a.conf">>),
      RmFiles(<<"/etc/*.conf">>) }

PatternRmConfs ==
    { RmPatterns([kind |-> "list", items |-> <<"secret">>]),
      RmPatterns([kind |-> "list", items |-> <<"secret", "regex">>]),
      RmPatterns([kind |-> "dict", items |-> <<>>]),
      RmPatterns([kind |-> "dict", items |-> <<"^pw.*">>]),
      RmConf({"keywords"}, <<>>, <<>>, NoPatterns, <<"secret">>) }

\* rm_conf.get(key, [])
RmGet(rm_conf, key) ==
    IF rm_conf.is_none \/ key \notin rm_conf.keys THEN <<>>
    ELSE IF key = "commands" THEN rm_conf.commands ELSE rm_conf.files

\* The host a run happens on: what the pre-command p_safe does when it is
\* started, what the wildcard and the glob match, which items the
\* collector delegate fails on, and whether get_tags() finds tags.
PreOutcomes ==
    { [kind |-> "oserror", lines |-> <<>>],
      [kind |-> "nonzero", lines |-> <<>>],
      [kind |-> "lines", lines |-> <<>>],
      [kind |-> "lines", lines |-> <<"a">>],
      [kind |-> "lines", lines |-> <<"a", "b">>] }
DefaultPre == [kind |-> "lines", lines |-> <<"a", "b">>]
Expansions == { <<>>, <<"/etc/a.conf">>, <<"/etc/a.conf", "/etc/b.conf">> }
GlobMatches == { <<>>, <<"/var/log/a.log">>, <<"/var/log/a.log", "/var/log/b.log">> }
FailingSets ==
    { {},
      {"uptime", "ls a", "/etc/hosts"},
      {"hostname", "/etc/a.conf", "/var/log/a.log"} }

Host(pre, expand, glob, failing, tags) ==
    [pre |-> pre, expand |-> expand, glob |-> glob, failing |-> failing, tags |-> tags]
DefaultGlob == <<"/var/log/a.log">>

UsesAlias(commands, alias) == \E i \in DOMAIN commands : commands[i].pre_command = alias
UsesWildcard(files) == \E i \in DOMAIN files : HasWildcard(files[i].file)

Run(conf, rm_conf, host) == [conf |-> conf, rm_conf |-> rm_conf, host |-> host]

\* Runs over every command list, with the default files and globs.
CommandRuns ==
    { Run(Catalog(c, DefaultFiles, DefaultGlobs), rm, Host(p, <<>>, DefaultGlob, f, TRUE)) :
        c \in SeqsUpTo(CommandSpecs, MaxCmds), rm \in CommandRmConfs,
        p \in PreOutcomes, f \in FailingSets }

\* Runs over every file and glob list, with the default commands.
FileRuns ==
    { Run(Catalog(DefaultCommands, fl, gl), rm, Host(DefaultPre, e, g, f, TRUE)) :
        fl \in FileLists, gl \in GlobLists, rm \in FileRmConfs,
        e \in Expansions, g \in GlobMatches, f \in FailingSets }

\* Runs over the pattern and keyword exclusions and the host's tags.
PatternRuns ==
    { Run(Catalog(DefaultCommands, DefaultFiles, DefaultGlobs), rm,
          Host(DefaultPre, <<>>, DefaultGlob, {}, t)) :
        rm \in PatternRmConfs \cup {RmNone}, t \in BOOLEAN }

\* A host is told apart only by what the catalog can observe of it.
Observable(r) ==
    /\ (r.host.pre = DefaultPre \/ UsesAlias(r.conf.commands, "p_safe"))
    /\ (r.host.expand = <<>> \/ UsesWildcard(r.conf.files))
    /\ (r.host.glob = DefaultGlob \/ r.conf.globs # <<>>)

Runs == {r \in CommandRuns \cup FileRuns \cup PatternRuns : Observable(r)}

(***************************************************************************)
(* DataCollector.run_collection.  A run is folded over the catalog; its    *)
(* state st is [log, hostname_path, exc]: the events so far, the recorded  *)
(* hostname path and the exception that is propagating ("none" if none).   *)
(***************************************************************************)
\* An event: what happened (ev) to which command, path or alias (what),
\* for the spec with which literal template (spec) and symbolic name (sym),
\* and whether it succeeded (ok).
Event(ev, what, spec, sym, ok) ==
    [ev |-> ev, what |-> what, spec |-> spec, sym |-> sym, ok |-> ok]

RunState(log, hostname_path, exc) ==
    [log |-> log, hostname_path |-> hostname_path, exc |-> exc]

Log(st, e) == [st EXCEPT !.log = Append(@, e)]
Raise(st, exc) == [st EXCEPT !.exc = exc]

\* insights.util.mangle.mangle_command on the commands of the catalogs.
mangle_command(command) ==
    CASE command = "hostname -f" -> "hostname_-f"
      [] OTHER -> command

\* os.path.join('insights_commands', mangle.mangle_command(c['command']))
HostnamePath(c) == "insights_commands/" \o mangle_command(c.command)

\* if c.get('symbolic_name') == 'hostname': self.hostname_path = ...
RememberHostname(st, c) ==
    IF c.symbolic_name = "hostname"
    THEN [st EXCEPT !.hostname_path = HostnamePath(c)]
    ELSE st

\* c['command'] in rm_commands or c.get('symbolic_name') in rm_commands
CommandExcluded(c, rm_commands) ==
    c.command \in Range(rm_commands) \/ c.symbolic_name \in Range(rm_commands)

\* Mutant: the expanded specs are not re-checked against the exclusions.
ExpandedExcludedNever(s, rm_commands) == FALSE

\* s['command'] in rm_commands, for a spec _parse_command_spec returned
ExpandedExcluded(s, rm_commands) == s.command \in Range(rm_commands)

\* Mutant: a flagged spec runs in image mode only, any other in host mode only.
RunsInModeExclusive(c, mountpoint) == (mountpoint = "/") = ~c.image

\* self.mountpoint == "/" or c.get("image")
RunsInMode(c, mountpoint) == mountpoint = "/" \/ c.image

\* The collector delegate (InsightsCommand / InsightsFile handed to
\* archive.add_to_archive): TRUE if the item is collected, FALSE if its
\* collection fails; the failure is the delegate's own signal.
add_to_archive(what, host) == what \notin host.failing

\* Mutant: a failing delegate raises out of the run.
CollectItemRaises(st, ev, what, spec, sym, host) ==
    LET ok == add_to_archive(what, host)
        st1 == [st EXCEPT !.log = Append(@, [ev |-> ev, what |-> what, spec |-> spec,
                                             sym |-> sym, ok |-> ok])]
    IN IF ok THEN st1 ELSE [st1 EXCEPT !.exc = "CollectionError"]

\* cmd_spec = InsightsCommand(...); self.archive.add_to_archive(cmd_spec)
\* (and the same for InsightsFile): the delegate's result is not looked at.
CollectItem(st, ev, what, spec, sym, host) ==
    Log(st, Event(ev, what, spec, sym, add_to_archive(what, host)))

\* _run_pre_command: Popen(pre_cmd, shell=True).  none: the method returned
\* None (OSError at launch); else args are the lines of its output, [] when
\* the return code is not 0.
_run_pre_command(pre_cmd, host) ==
    CASE host.pre.kind = "oserror" -> [none |-> TRUE, args |-> <<>>]
      [] host.pre.kind = "nonzero" -> [none |-> FALSE, args |-> <<>>]
      [] OTHER -> [none |-> FALSE, args |-> host.pre.lines]

\* _spec['command'] = _spec['command'] + ' ' + arg, for every arg
ExpandArgs(spec, args) ==
    [i \in 1..Len(args) |-> [spec EXCEPT !.command = @ \o " " \o args[i]]]

\* Mutant: the pre-command is started whatever the blacklist check said.
AfterBlacklistCheckIgnored(spec, alias, check, host) ==
    LET res == _run_pre_command(pre_commands[alias], host)
        events == << [ev |-> "blacklist_check", what |-> alias, spec |-> spec.command,
                      sym |-> spec.symbolic_name, ok |-> check = "False"],
                     [ev |-> "popen", what |-> alias, spec |-> spec.command,
                      sym |-> spec.symbolic_name, ok |-> ~res.none] >>
    IN IF res.none THEN [exc |-> "TypeError", specs |-> <<>>, events |-> events]
       ELSE [exc |-> "none", specs |-> ExpandArgs(spec, res.args), events |-> events]

\* What _parse_command_spec does once _blacklist_check(precmd) has returned
\* check: raise RuntimeError on "True" (ValueError came out of the check
\* itself), else run the pre-command and expand its lines; iterating over
\* a None result raises TypeError.
AfterBlacklistCheck(spec, alias, check, host) ==
    LET checked == <<Event("blacklist_check", alias, spec.command, spec.symbolic_name, check = "False")>> IN
    CASE check = "ValueError" -> [exc |-> "ValueError", specs |-> <<>>, events |-> checked]
      [] check = "True" -> [exc |-> "RuntimeError", specs |-> <<>>, events |-> checked]
      [] OTHER ->
           LET res == _run_pre_command(pre_commands[alias], host)
               started == Append(checked, Event("popen", alias, spec.command, spec.symbolic_name, ~res.none))
           IN IF res.none
              THEN [exc |-> "TypeError", specs |-> <<>>, events |-> started]
              ELSE [exc |-> "none", specs |-> ExpandArgs(spec, res.args), events |-> started]

\* _parse_command_spec(spec, precmds): [exc, specs, events].
_parse_command_spec(spec, precmds, host) ==
    IF spec.pre_command # Absent
    THEN IF ~HasKey(precmds, spec.pre_command)
         THEN \* except LookupError: return []
              [exc |-> "none", specs |-> <<>>, events |-> <<>>]
         ELSE AfterBlacklistCheck(spec, spec.pre_command,
                                  _blacklist_check(precmds[spec.pre_command]), host)
    ELSE [exc |-> "none", specs |-> <<spec>>, events |-> <<>>]

\* for s in cmd_specs: skip an excluded one, collect the others
RECURSIVE CollectCommands(_, _, _, _, _, _)
CollectCommands(st, c, specs, k, rm_commands, host) ==
    IF k > Len(specs) THEN st
    ELSE LET s == specs[k] IN
         IF ExpandedExcluded(s, rm_commands)
         THEN CollectCommands(Log(st, Event("skip_command", s.command, c.command,
                                            s.symbolic_name, FALSE)),
                              c, specs, k + 1, rm_commands, host)
         ELSE CollectCommands(CollectItem(st, "collect_command", s.command, c.command,
                                          s.symbolic_name, host),
                              c, specs, k + 1, rm_commands, host)

\* Mutant: the hostname path is recorded only for a command that is run.
CommandStepRemembersLate(st, c, rm_conf, host, mountpoint) ==
    LET rm_commands == RmGet(rm_conf, "commands")
    IN IF CommandExcluded(c, rm_commands)
       THEN Log(st, Event("skip_command", c.command, c.command, c.symbolic_name, FALSE))
       ELSE IF RunsInMode(c, mountpoint)
            THEN LET st1 == RememberHostname(st, c)
                     parsed == _parse_command_spec(c, pre_commands, host)
                     st2 == [st1 EXCEPT !.log = @ \o parsed.events]
                 IN IF parsed.exc # "none" THEN Raise(st2, parsed.exc)
                    ELSE CollectCommands(st2, c, parsed.specs, 1, rm_commands, host)
            ELSE st

\* One iteration of "for c in conf['commands']".
CommandStep(st, c, rm_conf, host, mountpoint) ==
    LET st1 == RememberHostname(st, c)
        rm_commands == RmGet(rm_conf, "commands")
    IN IF CommandExcluded(c, rm_commands)
       THEN Log(st1, Event("skip_command", c.command, c.command, c.symbolic_name, FALSE))
       ELSE IF RunsInMode(c, mountpoint)
            THEN LET parsed == _parse_command_spec(c, pre_commands, host)
                     st2 == [st1 EXCEPT !.log = @ \o parsed.events]
                 IN IF parsed.exc # "none" THEN Raise(st2, parsed.exc)
                    ELSE CollectCommands(st2, c, parsed.specs, 1, rm_commands, host)
            ELSE st1

\* An exception leaves the loop (and run_collection) at once.
RECURSIVE CommandLoop(_, _, _, _, _, _)
CommandLoop(st, commands, k, rm_conf, host, mountpoint) ==
    IF k > Len(commands) \/ st.exc # "none" THEN st
    ELSE CommandLoop(CommandStep(st, commands[k], rm_conf, host, mountpoint),
                     commands, k + 1, rm_conf, host, mountpoint)

\* f['file'] in rm_files or f.get('symbolic_name') in rm_files
FileExcluded(f, rm_files) ==
    f.file \in Range(rm_files) \/ f.symbolic_name \in Range(rm_files)

\* Mutant: the expanded paths are not re-checked against the exclusions.
PathExcludedNever(path, rm_files) == FALSE

\* s['file'] in rm_conf.get('files', []), for an expanded path
PathExcluded(path, rm_files) == path \in Range(rm_files)

\* Mutant: a wildcard that matches nothing is kept as a literal path.
_parse_file_spec_keeps_pattern(spec, host) ==
    IF HasWildcard(spec.file) /\ host.expand # <<>> THEN host.expand ELSE <<spec.file>>

\* _parse_file_spec: a wildcard spec becomes one spec per path that
\* _expand_paths returns (none when it returns nothing), any other spec
\* is kept.  The paths of the specs, in order.
_parse_file_spec(spec, host) ==
    IF HasWildcard(spec.file) THEN host.expand ELSE <<spec.file>>

\* _parse_glob_spec: one spec per glob.glob match, its 'file' the match.
_parse_glob_spec(spec, host) == host.glob

\* for s in file_specs / for g in glob_specs: skip an excluded path,
\* collect the others
\* (ev is "file" for a file spec and "glob" for a glob spec)
RECURSIVE CollectPaths(_, _, _, _, _, _, _, _)
CollectPaths(st, ev, paths, k, spec, sym, rm_files, host) ==
    IF k > Len(paths) THEN st
    ELSE IF PathExcluded(paths[k], rm_files)
         THEN CollectPaths(Log(st, Event("skip_" \o ev, paths[k], spec, sym, FALSE)),
                           ev, paths, k + 1, spec, sym, rm_files, host)
         ELSE CollectPaths(CollectItem(st, "collect_" \o ev, paths[k], spec, sym, host),
                           ev, paths, k + 1, spec, sym, rm_files, host)

\* One iteration of "for f in conf['files']".
FileStep(st, f, rm_conf, host) ==
    LET rm_files == RmGet(rm_conf, "files") IN
    IF FileExcluded(f, rm_files)
    THEN Log(st, Event("skip_file", f.file, f.file, f.symbolic_name, FALSE))
    ELSE CollectPaths(st, "file", _parse_file_spec(f, host), 1, f.file, f.symbolic_name,
                      rm_files, host)

RECURSIVE FileLoop(_, _, _, _, _)
FileLoop(st, files, k, rm_conf, host) ==
    IF k > Len(files) \/ st.exc # "none" THEN st
    ELSE FileLoop(FileStep(st, files[k], rm_conf, host), files, k + 1, rm_conf, host)

\* One iteration of "for g in conf['globs']".
GlobStep(st, g, rm_conf, host) ==
    CollectPaths(st, "glob", _parse_glob_spec(g, host), 1, g.glob, g.symbolic_name,
                 RmGet(rm_conf, "files"), host)

\* if 'globs' in conf: for g in conf['globs']: ...
RECURSIVE GlobLoop(_, _, _, _, _)
GlobLoop(st, conf, k, rm_conf, host) ==
    IF ~conf.has_globs \/ k > Len(conf.globs) \/ st.exc # "none" THEN st
    ELSE GlobLoop(GlobStep(st, conf.globs[k], rm_conf, host), conf, k + 1, rm_conf, host)

\* The patterns block: with a non-empty rm_conf, exclude = rm_conf['patterns']
\* (KeyError is caught); "'regex' in exclude and not exclude['regex']" raises
\* LookupError (caught) for an empty regex value, and TypeError (not caught)
\* when exclude is a list that holds the string 'regex'; else the warning.
PatternsStep(st, rm_conf) ==
    IF rm_conf.is_none \/ rm_conf.keys = {} \/ "patterns" \notin rm_conf.keys THEN st
    ELSE LET exclude == rm_conf.patterns IN
         CASE exclude.kind = "list" /\ "regex" \in Range(exclude.items) -> Raise(st, "TypeError")
           [] exclude.kind = "dict" /\ exclude.items = <<>> -> st
           [] OTHER -> Log(st, Event("warn_patterns", "patterns", Absent, Absent, TRUE))

Metadata(path) == Event("metadata", path, Absent, Absent, TRUE)

\* _write_display_name: only if self.config.display_name
DisplayNameArtifacts(config) ==
    IF config.display_name # NoneV THEN <<Metadata("/display_name")>> ELSE <<>>

\* _write_tags: only if get_tags() is not None
TagsArtifacts(host) == IF host.tags THEN <<Metadata("/tags.json")>> ELSE <<>>

\* Mutant: the version information is not written.
MetadataArtifactsNoVersion(config, host) ==
    <<Metadata("/branch_info")>> \o DisplayNameArtifacts(config)
    \o TagsArtifacts(host) \o <<Metadata("/blacklist_report")>>

\* The "collect metadata" block, in the order of its calls.
MetadataArtifacts(config, host) ==
    <<Metadata("/branch_info")>> \o DisplayNameArtifacts(config)
    \o <<Metadata("/version_info")>> \o TagsArtifacts(host)
    \o <<Metadata("/blacklist_report")>>

\* add_metadata_to_archive joins the path to archive.archive_dir, which is
\* None until update() has set it: os.path.join(None, ...) raises TypeError.
MetadataStep(st, config, host, archive_dir) ==
    IF st.exc # "none" THEN st
    ELSE IF archive_dir = NoneV THEN Raise(st, "TypeError")
    ELSE [st EXCEPT !.log = @ \o MetadataArtifacts(config, host)]

\* run_collection(conf, rm_conf, branch_info, blacklist_report)
run_collection(config, archive_dir, hostname_path, conf, rm_conf, host) ==
    LET st0 == RunState(<<>>, hostname_path, "none")
        st1 == PatternsStep(st0, rm_conf)
        st2 == CommandLoop(st1, conf.commands, 1, rm_conf, host, config.mountpoint)
        st3 == FileLoop(st2, conf.files, 1, rm_conf, host)
        st4 == GlobLoop(st3, conf, 1, rm_conf, host)
    IN MetadataStep(st4, config, host, archive_dir)

(***************************************************************************)
(* InsightsArchive.  The archive is [tmp_dir, archive_tmp_dir,             *)
(* archive_name, archive_dir, compressor, tar_file]; fs is the set of      *)
(* directories and files that exist, each with the temporary directory it  *)
(* lies under.                                                             *)
(***************************************************************************)
TmpDir == "/var/tmp/work"
PkgDir == "/var/tmp/pkg"

Entry(path, root) == [path |-> path, root |-> root]
TmpEntry == Entry(TmpDir, TmpDir)
PkgEntry == Entry(PkgDir, PkgDir)

Exists(fs, path) == \E e \in fs : e.path = path

\* shutil.rmtree(path, ignore_errors): removes path and all below it;
\* without ignore_errors a missing path raises OSError.
rmtree(fs, path, ignore_errors) ==
    IF ~Exists(fs, path) /\ ~ignore_errors
    THEN [fs |-> fs, exc |-> "OSError"]
    ELSE [fs |-> {e \in fs : e.path # path /\ e.root # path}, exc |-> "none"]

\* __init__: mkdtemp for tmp_dir, and for archive_tmp_dir unless obfuscating
NewArchive(config) ==
    [tmp_dir |-> TmpDir,
     archive_tmp_dir |-> IF config.obfuscate THEN NoneV ELSE PkgDir,
     archive_name |-> NoneV, archive_dir |-> NoneV,
     compressor |-> config.compressor, tar_file |-> NoneV]

NewFs(config) == IF config.obfuscate THEN {TmpEntry} ELSE {TmpEntry, PkgEntry}

\* A collected-data path is <dirname>/<basename>; the basename is empty for
\* a path that ends in a slash.
CollectedPaths ==
    { [dirname |-> TmpDir, basename |-> "insights-web01-20261103"],
      [dirname |-> TmpDir \o "/data", basename |-> ""] }

PathOf(p) == p.dirname \o "/" \o p.basename

\* update(collected_data_path)
update(archive, p) ==
    [archive EXCEPT !.archive_dir = PathOf(p),
                    !.archive_name = IF p.basename # "" THEN p.basename
                                     ELSE "insights-archive"]

\* get_compression_flag(compressor)
get_compression_flag(compressor) ==
    CASE compressor = "gz" -> "z"
      [] compressor = "xz" -> "J"
      [] compressor = "bz2" -> "j"
      [] compressor = "none" -> ""
      [] OTHER -> "z"

Compressors == {"gz", "xz", "bz2", "none", "lzma"}

\* Mutant: the extension is that of the compressor whatever it is.
TarFileNameAlwaysExt(archive) ==
    archive.archive_tmp_dir \o "/" \o archive.archive_name \o ".tar"
    \o "." \o archive.compressor

\* ext = "" if self.compressor == "none" else ".%s" % self.compressor
TarFileName(archive) ==
    archive.archive_tmp_dir \o "/" \o archive.archive_name \o ".tar"
    \o (IF archive.compressor = "none" THEN "" ELSE "." \o archive.compressor)

\* The tar subprocess: its return code is 0 or not, and it leaves a file
\* behind (always when it returns 0).
TarOutcomes ==
    { [rc_zero |-> TRUE, wrote |-> TRUE],
      [rc_zero |-> FALSE, wrote |-> TRUE],
      [rc_zero |-> FALSE, wrote |-> FALSE] }

\* delete_archive_dir
delete_archive_dir(archive, fs) == rmtree(fs, archive.archive_dir, TRUE).fs

\* create_tar_file: [exc, ret, archive, fs, flag]
create_tar_file(archive, fs, tar) ==
    IF archive.archive_tmp_dir = NoneV
    THEN [exc |-> "RuntimeError", ret |-> NoneV, archive |-> archive, fs |-> fs, flag |-> NoneV]
    ELSE IF archive.archive_name = NoneV
    THEN \* os.path.join(self.archive_tmp_dir, None)
         [exc |-> "TypeError", ret |-> NoneV, archive |-> archive, fs |-> fs, flag |-> NoneV]
    ELSE
      LET tar_file_name == TarFileName(archive)
          flag == get_compression_flag(archive.compressor)
          \* tar cannot succeed without the directory it reads and the one it writes
          can == Exists(fs, archive.tmp_dir) /\ Exists(fs, archive.archive_tmp_dir)
          rc_zero == tar.rc_zero /\ can
          fs1 == IF tar.wrote /\ can
                 THEN fs \cup {Entry(tar_file_name, archive.archive_tmp_dir)} ELSE fs
      IN IF archive.compressor \in {"bz2", "xz"} /\ ~rc_zero
         THEN [exc |-> "none", ret |-> NoneV, archive |-> archive, fs |-> fs1, flag |-> flag]
         ELSE LET fs2 == delete_archive_dir(archive, fs1) IN
              IF ~Exists(fs2, tar_file_name)
              THEN \* os.path.getsize(tar_file_name)
                   [exc |-> "OSError", ret |-> NoneV, archive |-> archive, fs |-> fs2, flag |-> flag]
              ELSE [exc |-> "none", ret |-> tar_file_name,
                    archive |-> [archive EXCEPT !.tar_file = tar_file_name],
                    fs |-> fs2, flag |-> flag]

\* delete_archive_file: rmtree(archive_tmp_dir, True) if there is one
delete_archive_file(archive, fs) ==
    IF archive.archive_tmp_dir # NoneV
    THEN rmtree(fs, archive.archive_tmp_dir, TRUE)
    ELSE [fs |-> fs, exc |-> "none"]

\* Mutant: rmtree without ignore_errors.
delete_tmp_dir_strict(archive, fs) == rmtree(fs, archive.tmp_dir, FALSE)

\* delete_tmp_dir: rmtree(tmp_dir, True)
delete_tmp_dir(archive, fs) == rmtree(fs, archive.tmp_dir, TRUE)

\* Mutant: the package is kept whether or not one was produced.
KeepsArchiveAlways(config, archive) == config.keep_archive

\* Whether cleanup_tmp keeps the package: keep_archive and self.tar_file
KeepsArchive(config, archive) == config.keep_archive /\ archive.tar_file # NoneV

\* The else branch and the tail of cleanup_tmp, given whether the archive
\* is kept: [fs, exc].
CleanupDeletes(config, archive, fs, keep) ==
    IF keep /\ config.obfuscate THEN [fs |-> fs, exc |-> "none"]
    ELSE LET a == IF keep THEN [fs |-> fs, exc |-> "none"]
                  ELSE delete_archive_file(archive, fs)
         IN IF a.exc # "none" THEN a ELSE delete_tmp_dir(archive, a.fs)

\* cleanup_tmp: [fs, exc, msg]; msg is the logged retention message.
cleanup_tmp(config, archive, fs) ==
    LET keep == KeepsArchive(config, archive)
        res == CleanupDeletes(config, archive, fs, keep)
    IN [fs |-> res.fs, exc |-> res.exc,
        msg |-> IF ~keep THEN NoneV
                ELSE IF config.no_upload THEN "Archive saved at"
                ELSE "Insights archive retained in"]

(***************************************************************************)
(* DataCollector.done and CleanOptions.                                    *)
(***************************************************************************)
\* What the scrubbing engine (SOSCleaner.clean_report) leaves in
\* cleaner.dir_path and cleaner.archive_path.
ScrubbedDir == TmpDir \o "/soscleaner-1"
ScrubbedArchive == TmpDir \o "/soscleaner-1.tar.gz"

\* CleanOptions.__init__: a keyword file if rm_conf has 'keywords';
\* hostname_path is hostname_path or 'insights_commands/hostname' when
\* config.obfuscate_hostname, else None.
CleanOptions(config, tmp_dir, rm_conf, hostname_path) ==
    [report_dir |-> tmp_dir,
     keyword_file |-> ~rm_conf.is_none /\ "keywords" \in rm_conf.keys,
     hostname_path |-> IF config.obfuscate_hostname
                       THEN (IF hostname_path # NoneV THEN hostname_path
                             ELSE "insights_commands/hostname")
                       ELSE NoneV]

NoCleanOptions == [report_dir |-> NoneV, keyword_file |-> FALSE, hostname_path |-> NoneV]

\* flag is the compression flag of the tar command, if tar was run
DoneResult(exc, ret, archive, fs, engine_calls, clean_opts, flag) ==
    [exc |-> exc, ret |-> ret, archive |-> archive, fs |-> fs,
     engine_calls |-> engine_calls, clean_opts |-> clean_opts, flag |-> flag]

\* Mutant: the obfuscating branch returns the archive whatever output_dir is.
DoneObfuscatedArchiveOnly(config, archive, fs, hostname_path, rm_conf, env) ==
    LET clean_opts == CleanOptions(config, archive.tmp_dir, rm_conf, hostname_path) IN
    IF ~env.ip_report_ok
    THEN DoneResult("IOError", NoneV, archive, fs, 1, clean_opts, NoneV)
    ELSE DoneResult("none", ScrubbedArchive,
                    [archive EXCEPT !.tar_file = ScrubbedArchive], fs, 1, clean_opts, NoneV)

\* The obfuscating branch of done: the engine runs, _write_rhsm_facts opens
\* the engine's IP report (IOError if it cannot be read), then the result is
\* the scrubbed directory, or the scrubbed archive, which becomes tar_file.
DoneObfuscated(config, archive, fs, hostname_path, rm_conf, env) ==
    LET clean_opts == CleanOptions(config, archive.tmp_dir, rm_conf, hostname_path) IN
    IF ~env.ip_report_ok
    THEN DoneResult("IOError", NoneV, archive, fs, 1, clean_opts, NoneV)
    ELSE IF config.output_dir
    THEN DoneResult("none", ScrubbedDir, archive, fs, 1, clean_opts, NoneV)
    ELSE DoneResult("none", ScrubbedArchive,
                    [archive EXCEPT !.tar_file = ScrubbedArchive], fs, 1, clean_opts, NoneV)

\* The branch of done without obfuscation.
DonePlain(config, archive, fs, env) ==
    IF config.output_dir
    THEN DoneResult("none", archive.archive_dir, archive, fs, 0, NoCleanOptions, NoneV)
    ELSE LET t == create_tar_file(archive, fs, env.tar) IN
         DoneResult(t.exc, t.ret, t.archive, t.fs, 0, NoCleanOptions, t.flag)

\* done(conf, rm_conf)
done(config, archive, fs, hostname_path, rm_conf, env) ==
    IF config.obfuscate
    THEN DoneObfuscated(config, archive, fs, hostname_path, rm_conf, env)
    ELSE DonePlain(config, archive, fs, env)

DoneEnvs == [tar : TarOutcomes, ip_report_ok : BOOLEAN]
DoneRmConfs == {RmNone, RmConf({"keywords"}, <<>>, <<>>, NoPatterns, <<"secret">>)}

(***************************************************************************)
(* InsightsUploadConf: the exclusion configuration file (remove.conf).     *)
(* Strings read from the file are sequences of characters.                 *)
(***************************************************************************)
expected_keys == <<"commands", "files", "patterns", "keywords">>

\* Python values as yaml.safe_load builds them.  A list item or a mapping
\* key is [t, s]; the value under patterns.regex is [t, s, items]; the value
\* of a top-level key is [t, s, items, keys, regex], keys and regex being
\* those of a mapping.  t is "none", "str", "int", "list" or "dict".
Atom(t, s) == [t |-> t, s |-> s]
Inner(t, s, items) == [t |-> t, s |-> s, items |-> items]
InNone == Inner("none", <<>>, <<>>)
Py(t, s, items, keys, regex) ==
    [t |-> t, s |-> s, items |-> items, keys |-> keys, regex |-> regex]
PyNone == Py("none", <<>>, <<>>, {}, InNone)
PyStr(s) == Py("str", s, <<>>, {}, InNone)
PyInt(s) == Py("int", s, <<>>, {}, InNone)
PyList(items) == Py("list", <<>>, items, {}, InNone)
PyDict(keys, regex) == Py("dict", <<>>, <<>>, keys, regex)
Key(name) == Atom("str", name)

\* bool(v), as in `if v`
Truthy(v) ==
    CASE v.t = "none" -> FALSE
      [] v.t = "str" -> v.s # <<>>
      [] v.t = "int" -> v.s # <<"0">>
      [] v.t = "list" -> v.items # <<>>
      [] OTHER -> v.keys # {}

\* What get_rm_conf gives: exc is the exception raised or "none", msg the
\* message of a RuntimeError, ret the value returned: None or a mapping.
NoMsg == [kind |-> "none", keys |-> {}]
Msg(kind, keys) == [kind |-> kind, keys |-> keys]
RetNone == [t |-> "None", entries |-> {}]
RetDict(entries) == [t |-> "dict", entries |-> entries]
Raised(exc, msg) == [exc |-> exc, msg |-> msg, ret |-> [t |-> "raised", entries |-> {}]]
Returned(ret) == [exc |-> "none", msg |-> NoMsg, ret |-> ret]

\* InsightsUploadConf.__init__ sets remove_file and nothing else.
NewUploadConf == [attrs |-> {"remove_file"}]

\* Mutant: None is not a list of strings.
is_list_of_strings_strict(t, items) ==
    /\ t = "list"
    /\ \A i \in DOMAIN items : items[i].t = "str"

\* is_list_of_strings(data), data given by its type and items
is_list_of_strings(t, items) ==
    \/ t = "none"
    \/ /\ t = "list"
       /\ \A i \in DOMAIN items : items[i].t = "str"

\* Whether the mapping has the key.
HasEntry(entries, name) == \E e \in entries : e.k = Key(name)
EntryOf(entries, name) == (CHOOSE e \in entries : e.k = Key(name)).v

\* The body of correct_format's loop for one expected key k that is in the
\* mapping: the error message, or NoMsg.
FormatError(k, v) ==
    IF k = "patterns" /\ v.t = "dict"
    THEN IF "regex" \notin v.keys
         THEN Msg("no_regex", {k})
         ELSE IF Cardinality(v.keys) > 1
         THEN Msg("unknown_patterns_keys", {k})
         ELSE IF ~is_list_of_strings(v.regex.t, v.regex.items)
         THEN Msg("regex_not_list", {k})
         ELSE NoMsg
    ELSE IF ~is_list_of_strings(v.t, v.items)
         THEN Msg("not_list", {k})
         ELSE NoMsg

\* for k in expected_keys: the first error, from the i-th key on
RECURSIVE FormatLoop(_, _)
FormatLoop(entries, i) ==
    IF i > Len(expected_keys) THEN NoMsg
    ELSE LET k == expected_keys[i]
             m == IF HasEntry(entries, k) THEN FormatError(k, EntryOf(entries, k))
                  ELSE NoMsg
         IN IF m # NoMsg THEN m ELSE FormatLoop(entries, i + 1)

\* Mutant: unknown keys are not looked for.
correct_format_any_key(entries) ==
    LET m == FormatLoop(entries, 1)
    IN [exc |-> "none", err |-> m # NoMsg, msg |-> m]

\* correct_format(parsed_data): [exc, err, msg].  ', '.join(invalid_keys)
\* raises TypeError when a key is not a string.
correct_format(entries) ==
    LET invalid_keys == { e.k : e \in { x \in entries :
                                 ~(x.k.t = "str" /\ x.k.s \in Range(expected_keys)) } }
    IN IF invalid_keys # {}
       THEN IF \E k \in invalid_keys : k.t # "str"
            THEN [exc |-> "TypeError", err |-> TRUE, msg |-> NoMsg]
            ELSE [exc |-> "none", err |-> TRUE,
                  msg |-> Msg("unknown_sections", { k.s : k \in invalid_keys })]
       ELSE LET m == FormatLoop(entries, 1)
            IN [exc |-> "none", err |-> m # NoMsg, msg |-> m]

\* value.strip()
RECURSIVE lstrip(_)
lstrip(s) == IF s # <<>> /\ Head(s) \in Whitespace THEN lstrip(Tail(s)) ELSE s
RECURSIVE rstrip(_)
rstrip(s) ==
    IF s # <<>> /\ s[Len(s)] \in Whitespace THEN rstrip(SubSeq(s, 1, Len(s) - 1)) ELSE s
strip(s) == rstrip(lstrip(s))

\* value.split(','): the pieces between the commas, from the piece cur on
RECURSIVE SplitFrom(_, _, _)
SplitFrom(s, i, cur) ==
    IF i > Len(s) THEN << cur >>
    ELSE IF s[i] = "," THEN << cur >> \o SplitFrom(s, i + 1, <<>>)
    ELSE SplitFrom(s, i + 1, Append(cur, s[i]))
split(s) == SplitFrom(s, 1, <<>>)

\* rm_conf[item] = value.strip()...split(',') (the values read have no
\* backslash, so the escape decoding leaves them as they are)
IniValue(value) ==
    LET parts == split(strip(value))
    IN PyList([i \in DOMAIN parts |-> Atom("str", parts[i])])

\* The position of the first item of the INI section that is not an
\* expected key, or 0.
RECURSIVE FirstUnknown(_, _)
FirstUnknown(items, i) ==
    IF i > Len(items) THEN 0
    ELSE IF items[i].item \notin Range(expected_keys) THEN i
    ELSE FirstUnknown(items, i + 1)

\* get_rm_conf_old: ini is what RawConfigParser finds: ok is FALSE when
\* read() or items('remove') raises ConfigParser.Error, and the handler
\* then reads self.config.logging_file.
get_rm_conf_old(self, ini) ==
    IF ~ini.ok
    THEN IF "config" \notin self.attrs
         THEN Raised("AttributeError", NoMsg)
         ELSE Raised("RuntimeError", Msg("cannot_parse", {}))
    ELSE LET u == FirstUnknown(ini.items, 1)
         IN IF u # 0
            THEN Raised("RuntimeError", Msg("unknown_section", {ini.items[u].item}))
            ELSE Returned(RetDict({ [k |-> Key(ini.items[i].item),
                                     v |-> IniValue(ini.items[i].value)] :
                                    i \in DOMAIN ini.items }))

\* Mutant: an empty document gives None.
get_rm_conf_empty_is_none(self, file) ==
    IF ~file.exists \/ file.content.yaml.t = "none" THEN Returned(RetNone)
    ELSE LET y == file.content.yaml IN
         IF y.t # "dict" THEN get_rm_conf_old(self, file.content.ini)
         ELSE LET f == correct_format(y.entries) IN
              IF f.exc # "none" THEN Raised(f.exc, NoMsg)
              ELSE IF f.err THEN Raised("RuntimeError", f.msg)
              ELSE Returned(RetDict({ e \in y.entries : Truthy(e.v) }))

\* Mutant: nothing is dropped from the mapping.
get_rm_conf_unfiltered(self, file) ==
    IF ~file.exists THEN Returned(RetNone)
    ELSE LET y == file.content.yaml IN
         IF y.t = "none" THEN Returned(RetDict({}))
         ELSE IF y.t # "dict" THEN get_rm_conf_old(self, file.content.ini)
         ELSE LET f == correct_format(y.entries) IN
              IF f.exc # "none" THEN Raised(f.exc, NoMsg)
              ELSE IF f.err THEN Raised("RuntimeError", f.msg)
              ELSE Returned(RetDict(y.entries))

\* get_rm_conf: file.content.yaml is what yaml.safe_load gives ("error": it
\* raises YAMLError), file.content.ini what the INI parser finds.
get_rm_conf(self, file) ==
    IF ~file.exists THEN Returned(RetNone)
    ELSE LET y == file.content.yaml IN
         IF y.t = "none" THEN Returned(RetDict({}))
         ELSE IF y.t # "dict" THEN get_rm_conf_old(self, file.content.ini)
         ELSE LET f == correct_format(y.entries) IN
              IF f.exc # "none" THEN Raised(f.exc, NoMsg)
              ELSE IF f.err THEN Raised("RuntimeError", f.msg)
              ELSE Returned(RetDict({ e \in y.entries : Truthy(e.v) }))

\* What validate gives: ret is "True", "False" or NoneV (it raised); parses
\* counts the calls of get_rm_conf.
Validated(exc, ret, parses) == [exc |-> exc, ret |-> ret, parses |-> parses]

\* The tail of validate, after the permission check.
ValidateParsed(self, file) ==
    LET success == get_rm_conf(self, file) IN
    IF success.exc # "none" THEN Validated(success.exc, NoneV, 1)
    ELSE IF success.ret.t = "None" THEN Validated("none", "False", 1)
    ELSE IF "config" \notin self.attrs
         THEN \* self.config.verbose
              Validated("AttributeError", NoneV, 1)
    ELSE Validated("none", "True", 1)

\* Mutant: the permission mode is not looked at.
validate_any_mode(self, file) ==
    IF ~file.exists THEN Validated("none", "False", 0)
    ELSE ValidateParsed(self, file)

\* validate()
validate(self, file) ==
    IF ~file.exists THEN Validated("none", "False", 0)
    ELSE IF file.mode # "0600" THEN Validated("none", "False", 0)
    ELSE ValidateParsed(self, file)

\* The documents a remove.conf may hold.
Yaml(t, entries) == [t |-> t, entries |-> entries]
Ini(ok, items) == [ok |-> ok, items |-> items]
IniItem(item, value) == [item |-> item, value |-> value]
Content(yaml, ini) == [yaml |-> yaml, ini |-> ini]
NoIni == Ini(FALSE, <<>>)

a_str == Atom("str", <<"l", "s">>)
a_int == Atom("int", <<"5">>)

\* The values of a list-valued key.
ListValues ==
    { PyNone, PyList(<<>>), PyList(<<a_str>>), PyList(<<a_str, a_int>>),
      PyStr(<<>>), PyStr(<<"l", "s">>), PyInt(<<"5">>) }
\* The values of files.
FileValues == { PyNone, PyList(<<>>), PyList(<<a_str>>) }
\* The values under patterns.regex.
RegexValues ==
    { InNone, Inner("list", <<>>, <<>>), Inner("list", <<>>, <<a_str>>),
      Inner("list", <<>>, <<a_int>>), Inner("str", <<"l", "s">>, <<>>) }
\* The values of patterns: those of a list, or a mapping.
PatternValues ==
    ListValues
    \cup { PyDict({"regex"}, r) : r \in RegexValues }
    \cup { PyDict({"regex", "extra"}, Inner("list", <<>>, <<a_str>>)),
           PyDict({"other"}, InNone), PyDict({}, InNone) }

\* A key of the mapping that may be there, with one of the values.
Optional(key, values) == { {} } \cup { { [k |-> key, v |-> v] } : v \in values }

Mappings ==
    { c \cup f \cup p \cup b \cup x \cup n :
        c \in Optional(Key("commands"), ListValues),
        f \in Optional(Key("files"), FileValues),
        p \in Optional(Key("patterns"), PatternValues),
        b \in Optional(Key("bogus"), {PyList(<<a_str>>)}),
        x \in Optional(Key("extra"), {PyNone}),
        n \in Optional(Atom("int", "1"), {PyList(<<a_str>>)}) }

\* What the INI parser finds in a file that is no YAML mapping.
IniOutcomes ==
    { NoIni,
      Ini(TRUE, <<>>),
      Ini(TRUE, << IniItem("files", <<"/", "a", ",", "/", "b", " ">>) >>),
      Ini(TRUE, << IniItem("commands", <<"l", "s">>), IniItem("files", <<>>) >>),
      Ini(TRUE, << IniItem("files", <<"/", "a">>), IniItem("bogus", <<"x">>) >>) }

Contents ==
    { Content(Yaml("none", {}), NoIni) }
    \cup { Content(Yaml(t, {}), i) : t \in {"error", "str", "list"}, i \in IniOutcomes }
    \cup { Content(Yaml("dict", m), NoIni) : m \in Mappings }

Modes == {"0600", "0644", "0400", "0666"}
File(exists, mode, content) == [exists |-> exists, mode |-> mode, content |-> content]
NoFile == File(FALSE, "0600", Content(Yaml("none", {}), NoIni))
RemoveFiles == { NoFile } \cup { File(TRUE, m, c) : m \in Modes, c \in Contents }

NotLoaded == [called |-> FALSE, exc |-> "none", msg |-> NoMsg, ret |-> RetNone]
NotValidated == [called |-> FALSE, exc |-> "none", ret |-> NoneV, parses |-> 0]

(***************************************************************************)
(* The state machine.                                                      *)
(***************************************************************************)
VARIABLES
    config,         \* the InsightsConfig the objects were constructed with
    archive,        \* the InsightsArchive's fields
    fs,             \* the directories and files that exist
    hostname_path,  \* DataCollector.hostname_path
    call,           \* the run_collection call, once made: its arguments, the host
                    \* it ran on and the archive_dir it wrote to
    log,            \* what run_collection did, in order
    rc,             \* "not_run", "returned" or the exception it raised
    fin,            \* the done call: [called, exc, ret, engine_calls, clean_opts, flag]
    cleanups,       \* the number of cleanup_tmp calls so far
    cleanup_exc,    \* the exception the last cleanup_tmp call raised, or "none"
    remove_file,    \* the file at InsightsUploadConf.remove_file
    loaded,         \* the get_rm_conf call: [called, exc, msg, ret]
    valid,          \* the validate call: [called, exc, ret, parses]
    cmd,            \* the command handed to _blacklist_check
    verdict,        \* "unchecked", or what _blacklist_check gave for cmd
    ds,             \* the datasource descriptors handed to categorize
    report          \* the categorize call: [called, result]

vars == <<config, archive, fs, hostname_path, call, log, rc, fin, cleanups, cleanup_exc,
          remove_file, loaded, valid, cmd, verdict, ds, report>>
collectorVars ==
    <<config, archive, fs, hostname_path, call, log, rc, fin, cleanups, cleanup_exc>>
loaderVars == <<remove_file, loaded, valid>>
checkerVars == <<cmd, verdict>>
reportVars == <<ds, report>>

Config(obfuscate, obfuscate_hostname, output_dir, keep_archive, no_upload,
       compressor, display_name, mountpoint) ==
    [obfuscate |-> obfuscate, obfuscate_hostname |-> obfuscate_hostname,
     output_dir |-> output_dir, keep_archive |-> keep_archive,
     no_upload |-> no_upload, compressor |-> compressor,
     display_name |-> display_name, mountpoint |-> mountpoint]

\* The configurations of a collection run: the collector's own options.
CollectConfigs ==
    { Config(o, o, FALSE, FALSE, FALSE, "gz", d, m) :
        o \in BOOLEAN, d \in {NoneV, "web01"}, m \in {"/", "/mnt/image"} }

\* The configurations of the archive's life: the archive's and the
\* finalizer's options.
ArchiveConfigs ==
    { Config(o, oh, od, k, nu, c, NoneV, "/") :
        o \in BOOLEAN, oh \in BOOLEAN, od \in BOOLEAN, k \in BOOLEAN,
        nu \in BOOLEAN, c \in Compressors }

NoCall == [made |-> FALSE, conf |-> Catalog(<<>>, <<>>, [has_globs |-> FALSE, globs |-> <<>>]),
           rm_conf |-> RmNone, host |-> Host(DefaultPre, <<>>, DefaultGlob, {}, TRUE),
           archive_dir |-> NoneV]
NotDone == [called |-> FALSE, exc |-> "none", ret |-> NoneV, engine_calls |-> 0,
            clean_opts |-> NoCleanOptions, flag |-> NoneV]

\* The state after DataCollector(config) has constructed its archive.
Constructed(configs) ==
    /\ config \in configs
    /\ archive = NewArchive(config)
    /\ fs = NewFs(config)
    /\ hostname_path = NoneV
    /\ call = NoCall
    /\ log = <<>>
    /\ rc = "not_run"
    /\ fin = NotDone
    /\ cleanups = 0
    /\ cleanup_exc = "none"

\* No exclusion file is looked at.
LoaderIdle ==
    /\ remove_file = NoFile
    /\ loaded = NotLoaded
    /\ valid = NotValidated

\* No command is handed to the blacklist check.
CheckerIdle ==
    /\ cmd = <<>>
    /\ verdict = "unchecked"

\* No descriptor is handed to categorize.
NoReport == [called |-> FALSE, result |-> {}]
ReportIdle ==
    /\ ds = <<>>
    /\ report = NoReport

Init == Constructed(CollectConfigs) /\ LoaderIdle /\ CheckerIdle /\ ReportIdle
InitArchive == Constructed(ArchiveConfigs) /\ LoaderIdle /\ CheckerIdle /\ ReportIdle

\* archive.update(collected_data_path): the collected data lies at the path.
Update ==
    /\ archive.archive_dir = NoneV
    /\ \E p \in CollectedPaths :
         /\ archive' = update(archive, p)
         /\ fs' = IF Exists(fs, TmpDir) THEN fs \cup {Entry(PathOf(p), TmpDir)} ELSE fs
    /\ UNCHANGED <<config, hostname_path, call, log, rc, fin, cleanups, cleanup_exc>>
    /\ UNCHANGED <<loaderVars, checkerVars, reportVars>>

\* dc.run_collection(conf, rm_conf, branch_info, blacklist_report)
RunCollection ==
    /\ rc = "not_run"
    /\ \E r \in Runs :
         LET st == run_collection(config, archive.archive_dir, hostname_path,
                                  r.conf, r.rm_conf, r.host)
         IN /\ call' = [made |-> TRUE, conf |-> r.conf, rm_conf |-> r.rm_conf,
                         host |-> r.host, archive_dir |-> archive.archive_dir]
            /\ log' = st.log
            /\ hostname_path' = st.hostname_path
            /\ rc' = IF st.exc = "none" THEN "returned" ELSE st.exc
    /\ UNCHANGED <<config, archive, fs, fin, cleanups, cleanup_exc>>
    /\ UNCHANGED <<loaderVars, checkerVars, reportVars>>

\* dc.done(conf, rm_conf)
Done ==
    /\ ~fin.called
    /\ \E rm_conf \in DoneRmConfs, env \in DoneEnvs :
         LET d == done(config, archive, fs, hostname_path, rm_conf, env)
         IN /\ fin' = [called |-> TRUE, exc |-> d.exc, ret |-> d.ret,
                       engine_calls |-> d.engine_calls, clean_opts |-> d.clean_opts,
                       flag |-> d.flag]
            /\ archive' = d.archive
            /\ fs' = d.fs
    /\ UNCHANGED <<config, hostname_path, call, log, rc, cleanups, cleanup_exc>>
    /\ UNCHANGED <<loaderVars, checkerVars, reportVars>>

MaxCleanups == 2

\* archive.cleanup_tmp(), the exit hook
Cleanup ==
    /\ cleanups < MaxCleanups
    /\ LET c == cleanup_tmp(config, archive, fs)
       IN /\ fs' = c.fs
          /\ cleanup_exc' = c.exc
    /\ cleanups' = cleanups + 1
    /\ UNCHANGED <<config, archive, hostname_path, call, log, rc, fin>>
    /\ UNCHANGED <<loaderVars, checkerVars, reportVars>>

\* A collection run: the collector's orchestration.
Next == Update \/ RunCollection
Spec == Init /\ [][Next]_vars

\* The archive's life: update, finalize, clean up.
NextArchive == Update \/ Done \/ Cleanup
SpecArchive == InitArchive /\ [][NextArchive]_vars

\* pconf.get_rm_conf()
GetRmConf ==
    /\ ~loaded.called
    /\ LET r == get_rm_conf(NewUploadConf, remove_file)
       IN loaded' = [called |-> TRUE, exc |-> r.exc, msg |-> r.msg, ret |-> r.ret]
    /\ UNCHANGED <<remove_file, valid>>
    /\ UNCHANGED <<collectorVars, checkerVars, reportVars>>

\* pconf.validate()
Validate ==
    /\ ~valid.called
    /\ LET r == validate(NewUploadConf, remove_file)
       IN valid' = [called |-> TRUE, exc |-> r.exc, ret |-> r.ret, parses |-> r.parses]
    /\ UNCHANGED <<remove_file, loaded>>
    /\ UNCHANGED <<collectorVars, checkerVars, reportVars>>

\* The exclusion configuration: an InsightsUploadConf over a remove.conf.
DefaultConfig == Config(FALSE, FALSE, FALSE, FALSE, FALSE, "gz", NoneV, "/")
InitLoader ==
    /\ Constructed({DefaultConfig})
    /\ remove_file \in RemoveFiles
    /\ loaded = NotLoaded
    /\ valid = NotValidated
    /\ CheckerIdle
    /\ ReportIdle
NextLoader == GetRmConf \/ Validate
SpecLoader == InitLoader /\ [][NextLoader]_vars

\* self._blacklist_check(cmd)
BlacklistCheck ==
    /\ verdict = "unchecked"
    /\ verdict' = _blacklist_check(cmd)
    /\ UNCHANGED cmd
    /\ UNCHANGED <<collectorVars, loaderVars, reportVars>>

\* The commands handed to the check: every string of up to MaxCmdLen
\* characters, and the two commands of the checker's examples.
CmdAlphabet == {"r", "m", " ", ";", "'", "\"", "\\"}
MaxCmdLen == 5
ShortCommands == UNION { [1..n -> CmdAlphabet] : n \in 0..MaxCmdLen }
rm_then_echo ==
    <<"r", "m", " ", "-", "r", "f", " ", "/", ";", " ", "e", "c", "h", "o", " ", "o", "k">>
echo_safe ==
    <<"e", "c", "h", "o", " ", "'", "s", "a", "f", "e", " ",
      "c", "o", "m", "m", "a", "n", "d", "'">>
Commands == ShortCommands \cup {rm_then_echo, echo_safe}

\* The blacklist safety checker on its own.
InitChecker ==
    /\ Constructed({DefaultConfig})
    /\ LoaderIdle
    /\ cmd \in Commands
    /\ verdict = "unchecked"
    /\ ReportIdle
NextChecker == BlacklistCheck
SpecChecker == InitChecker /\ [][NextChecker]_vars

(***************************************************************************)
(* collection_rules.resolve and categorize.  A datasource descriptor is    *)
(* an object of one class of insights.core.spec_factory, with the          *)
(* attribute of its class: path, paths, patterns or cmd.  Strings are      *)
(* sequences of characters, ordered as Python orders str.                  *)
(***************************************************************************)
\* The characters of the literals, in the order of their code points.
CodePoints == <<" ", "*", "/", "a", "b", "l", "s">>
ord(c) == CHOOSE i \in DOMAIN CodePoints : CodePoints[i] = c

\* s < t on str: by the first character that differs, a proper prefix first.
RECURSIVE str_lt(_, _)
str_lt(s, t) ==
    IF t = <<>> THEN FALSE
    ELSE IF s = <<>> THEN TRUE
    ELSE IF Head(s) # Head(t) THEN ord(Head(s)) < ord(Head(t))
    ELSE str_lt(Tail(s), Tail(t))

\* sorted(v), for a set v of str
RECURSIVE sorted(_)
sorted(v) ==
    IF v = {} THEN <<>>
    ELSE LET least == CHOOSE x \in v : \A y \in v : x = y \/ str_lt(x, y)
         IN <<least>> \o sorted(v \ {least})

\* set(res)
set(res) == {res[i] : i \in DOMAIN res}

Descriptor(cls, path, paths, patterns, c) ==
    [cls |-> cls, path |-> path, paths |-> paths, patterns |-> patterns, cmd |-> c]
simple_file(path) == Descriptor("simple_file", path, <<>>, <<>>, <<>>)
first_file(paths) == Descriptor("first_file", <<>>, paths, <<>>, <<>>)
glob_file(patterns) == Descriptor("glob_file", <<>>, <<>>, patterns, <<>>)
foreach_collect(path) == Descriptor("foreach_collect", path, <<>>, <<>>, <<>>)
simple_command(c) == Descriptor("simple_command", <<>>, <<>>, <<>>, c)
command_with_args(c) == Descriptor("command_with_args", <<>>, <<>>, <<>>, c)
foreach_execute(c) == Descriptor("foreach_execute", <<>>, <<>>, <<>>, c)
\* first_of, head, find, listdir and @datasource functions: no literal is read
Derived(cls) == Descriptor(cls, <<>>, <<>>, <<>>, <<>>)

\* What resolve returns: (cat, res); (None, None) is cat = NoneV.
Resolved(cat, res) == [cat |-> cat, res |-> res]

\* Mutant: a command run per item is reported as a static command.
resolve_execute_as_static(d) ==
    CASE d.cls = "simple_file" -> Resolved("file_static", <<d.path>>)
      [] d.cls = "first_file" -> Resolved("file_static", d.paths)
      [] d.cls = "glob_file" -> Resolved("file_glob", d.patterns)
      [] d.cls = "foreach_collect" -> Resolved("file_template", <<d.path>>)
      [] d.cls = "simple_command" -> Resolved("command_static", <<d.cmd>>)
      [] d.cls = "command_with_args" -> Resolved("command_template", <<d.cmd>>)
      [] d.cls = "foreach_execute" -> Resolved("command_static", <<d.cmd>>)
      [] OTHER -> Resolved(NoneV, <<>>)

\* resolve(d): the chain of isinstance tests, in order
resolve(d) ==
    CASE d.cls = "simple_file" -> Resolved("file_static", <<d.path>>)
      [] d.cls = "first_file" -> Resolved("file_static", d.paths)
      [] d.cls = "glob_file" -> Resolved("file_glob", d.patterns)
      [] d.cls = "foreach_collect" -> Resolved("file_template", <<d.path>>)
      [] d.cls = "simple_command" -> Resolved("command_static", <<d.cmd>>)
      [] d.cls = "command_with_args" -> Resolved("command_template", <<d.cmd>>)
      [] d.cls = "foreach_execute" -> Resolved("command_template", <<d.cmd>>)
      [] OTHER -> Resolved(NoneV, <<>>)

\* A dict is the set of its items [k, v].
\* results[cat] |= set(res), on a defaultdict(set): a missing key starts
\* as the empty set.
UnionInto(results, cat, res) ==
    IF \E e \in results : e.k = cat
    THEN { IF e.k = cat THEN [k |-> cat, v |-> e.v \cup set(res)] ELSE e : e \in results }
    ELSE results \cup { [k |-> cat, v |-> set(res)] }

\* for d in ds: (cat, res) = resolve(d); if cat is not None: ...
RECURSIVE CategorizeLoop(_, _, _)
CategorizeLoop(results, descriptors, i) ==
    IF i > Len(descriptors) THEN results
    ELSE LET r == resolve(descriptors[i])
         IN CategorizeLoop(IF r.cat # NoneV THEN UnionInto(results, r.cat, r.res)
                           ELSE results,
                           descriptors, i + 1)

\* categorize(ds): {k: sorted(v) for k, v in results.items()}
categorize(descriptors) ==
    { [k |-> e.k, v |-> sorted(e.v)] : e \in CategorizeLoop({}, descriptors, 1) }

\* The literals and the descriptors handed to categorize.
path_a == <<"/", "a">>
path_b == <<"/", "b">>
path_ab == <<"/", "a", "b">>
glob_a == <<"/", "a", "*">>
cmd_ls == <<"l", "s">>
cmd_ls_a == <<"l", "s", " ", "a">>
Descriptors ==
    { simple_file(path_b), simple_file(path_a),
      first_file(<<path_b, path_ab, path_b>>), first_file(<<>>),
      glob_file(<<glob_a, path_a>>),
      foreach_collect(path_a),
      simple_command(cmd_ls_a), simple_command(cmd_ls),
      command_with_args(cmd_ls), foreach_execute(cmd_ls_a),
      Derived("first_of"), Derived("head"), Derived("listdir") }
MaxDs == 3

\* categorize(ds)
Categorize ==
    /\ ~report.called
    /\ report' = [called |-> TRUE, result |-> categorize(ds)]
    /\ UNCHANGED ds
    /\ UNCHANGED <<collectorVars, loaderVars, checkerVars>>

\* The spec categorizer on its own.
InitCategorize ==
    /\ Constructed({DefaultConfig})
    /\ LoaderIdle
    /\ CheckerIdle
    /\ ds \in SeqsUpTo(Descriptors, MaxDs)
    /\ report = NoReport
NextCategorize == Categorize
SpecCategorize == InitCategorize /\ [][NextCategorize]_vars

(***************************************************************************)
(* The claims.                                                             *)
(***************************************************************************)
RmCommandsOf(c) == Range(RmGet(c.rm_conf, "commands"))
RmFilesOf(c) == Range(RmGet(c.rm_conf, "files"))
Count(path) == Cardinality({i \in DOMAIN log : log[i].ev = "metadata" /\ log[i].what = path})

\* C1: no command is handed to the command collector if its literal command
\* string or its symbolic name is in the exclusion `commands` list, nor a
\* command produced by pre-command expansion whose expanded literal string is
\* in that list.
C1_ExcludedCommandsNotCollected ==
    \A i \in DOMAIN log :
        log[i].ev = "collect_command" =>
            /\ log[i].what \notin RmCommandsOf(call)
            /\ log[i].spec \notin RmCommandsOf(call)
            /\ log[i].sym \notin RmCommandsOf(call)

\* C1 witness: a pre-command expanded "ls" to "ls a" and "ls b"; "ls a" is
\* excluded and skipped, "ls b" is collected.
C1_Witness ==
    /\ "ls a" \in RmCommandsOf(call)
    /\ \E i, j \in DOMAIN log :
         /\ log[i].ev = "skip_command" /\ log[i].what = "ls a" /\ log[i].spec = "ls"
         /\ log[j].ev = "collect_command" /\ log[j].what = "ls b"

\* C2: no path is handed to the file collector if the file spec's literal
\* path or symbolic name is in the exclusion `files` list, or if the concrete
\* path from the wildcard expansion of a file spec or the glob expansion of
\* a glob spec is in that list.
C2_ExcludedFilesNotCollected ==
    \A i \in DOMAIN log :
        /\ log[i].ev = "collect_file" =>
             /\ log[i].what \notin RmFilesOf(call)
             /\ log[i].spec \notin RmFilesOf(call)
             /\ log[i].sym \notin RmFilesOf(call)
        /\ log[i].ev = "collect_glob" => log[i].what \notin RmFilesOf(call)

\* C2 witness: the wildcard matched /etc/a.conf and /etc/b.conf; the excluded
\* /etc/a.conf is skipped and /etc/b.conf is collected.
C2_Witness ==
    /\ "/etc/a.conf" \in RmFilesOf(call)
    /\ \E i, j \in DOMAIN log :
         /\ log[i].ev = "skip_file" /\ log[i].what = "/etc/a.conf"
         /\ log[i].spec = "/etc/*.conf"
         /\ log[j].ev = "collect_file" /\ log[j].what = "/etc/b.conf"

\* C3: the blacklist check runs before any pre-command is invoked: a
\* pre-command is started as a subprocess only right after its blacklist
\* check, and never if its tokens intersect the command blacklist.
C3_BlacklistCheckedBeforePreCommand ==
    \A i \in DOMAIN log :
        log[i].ev = "popen" =>
            /\ _blacklist_check(pre_commands[log[i].what]) = "False"
            /\ i > 1
            /\ log[i - 1].ev = "blacklist_check"
            /\ log[i - 1].what = log[i].what

\* C3 witness: the blacklisted pre-command "ls;rm" was checked and was not
\* started.
C3_Witness ==
    /\ \E i \in DOMAIN log :
         log[i].ev = "blacklist_check" /\ log[i].what = "p_rm" /\ ~log[i].ok
    /\ \A i \in DOMAIN log : log[i].ev # "popen"

\* A positive blacklist check at position i of the log.
BlacklistedAt(i) ==
    /\ log[i].ev = "blacklist_check"
    /\ _blacklist_check(pre_commands[log[i].what]) = "True"

\* C4: when a command spec's pre-command is blacklisted, only that spec's
\* expansion is aborted: the run still returns, having processed the later
\* specs and written the metadata artifacts.  (The RuntimeError of
\* _parse_command_spec has no handler, so the run raises instead.)
C4_Original ==
    (call.made /\ call.archive_dir # NoneV /\ \E i \in DOMAIN log : BlacklistedAt(i))
        => /\ rc = "returned"
           /\ Count("/branch_info") = 1

CleanupStep == cleanups' = cleanups + 1
Retained == config.keep_archive /\ archive.tar_file # NoneV
Under(dir) == {e \in fs : e.path = dir \/ e.root = dir}

\* C6 as claimed: for every configuration and every prior history, after
\* cleanup was called twice it has not raised and no working directory is
\* left behind.
C6_Original ==
    cleanups = 2 => (cleanup_exc = "none" /\ ~Exists(fs, TmpDir))

\* C6 amended: no cleanup call raises, the second no more than the first,
\* and a call leaves no working directory behind except when keep-archive
\* is requested, the run is obfuscated and a package was produced
\* (tar_file set by the obfuscated finalize): then the working directory
\* is retained.
C6_CleanupTwiceSafe ==
    [][CleanupStep =>
         /\ cleanup_exc' = "none"
         /\ Exists(fs', TmpDir) => (Retained /\ config.obfuscate)]_vars

\* C6 witness: after a failed packaging (xz, no package produced) cleanup
\* ran twice, did not raise and the working directory is gone.
C6_Witness ==
    /\ cleanups = 2 /\ cleanup_exc = "none"
    /\ fin.called /\ fin.exc = "none" /\ fin.ret = NoneV
    /\ ~config.obfuscate /\ ~config.output_dir /\ config.keep_archive
    /\ ~Exists(fs, TmpDir)

\* C7: cleanup leaves the packaging directory in place exactly when
\* keep-archive is requested and a package was produced (tar_file set), and
\* deletes it otherwise; it deletes the working directory in every case
\* except keep-archive requested, package produced and run obfuscated, in
\* which case it deletes nothing.
C7_CleanupRetention ==
    [][CleanupStep =>
         fs' = CASE Retained /\ config.obfuscate -> fs
                 [] Retained /\ ~config.obfuscate -> fs \ Under(TmpDir)
                 [] OTHER -> fs \ (Under(TmpDir) \cup Under(PkgDir))]_vars

\* C7 witness: keep-archive, not obfuscated, a package was produced; after
\* cleanup the packaging directory and the package are in place and the
\* working directory is gone.
C7_Witness ==
    /\ cleanups >= 1
    /\ config.keep_archive /\ ~config.obfuscate /\ archive.tar_file # NoneV
    /\ Exists(fs, PkgDir) /\ Exists(fs, archive.tar_file)
    /\ ~Exists(fs, TmpDir)

\* C8: done returns one of four results determined by obfuscate and
\* output_dir: (false,false) what create_tar_file returns, the tar path;
\* (false,true) the collected-data directory; (true,false) the scrubbing
\* engine's archive path; (true,true) the engine's scrubbed directory; and
\* the engine is invoked exactly when obfuscate is true.
C8_DoneResult ==
    [][(~fin.called /\ fin'.called) =>
         /\ fin'.engine_calls = (IF config.obfuscate THEN 1 ELSE 0)
         /\ fin'.exc = "none" =>
              CASE ~config.obfuscate /\ ~config.output_dir ->
                     IF fin'.ret = NoneV
                     THEN archive.compressor \in {"bz2", "xz"} /\ archive'.tar_file = NoneV
                     ELSE fin'.ret = TarFileName(archive) /\ archive'.tar_file = fin'.ret
                [] ~config.obfuscate /\ config.output_dir -> fin'.ret = archive.archive_dir
                [] config.obfuscate /\ ~config.output_dir -> fin'.ret = ScrubbedArchive
                [] OTHER -> fin'.ret = ScrubbedDir]_vars

\* C8 witness: done returned the scrubbed directory with obfuscate and
\* output_dir both set, after one engine invocation.
C8_Witness ==
    /\ fin.called /\ fin.exc = "none"
    /\ config.obfuscate /\ config.output_dir
    /\ fin.ret = ScrubbedDir /\ fin.engine_calls = 1

HasHostnameSpec(conf) ==
    \E i \in DOMAIN conf.commands : conf.commands[i].symbolic_name = "hostname"

\* C9: if the catalog has a command spec with symbolic name "hostname",
\* then once run_collection has returned (so before done is invoked, with
\* obfuscate=true or not) the recorded hostname output path is populated,
\* also when that command is excluded or not run in the collection mode.
C9_HostnamePathRecorded ==
    (rc = "returned" /\ HasHostnameSpec(call.conf))
        => (hostname_path # NoneV /\ hostname_path # "")

\* C9 witness: obfuscating, the hostname command is excluded and was never
\* collected, the run returned and the path is recorded.
C9_Witness ==
    /\ rc = "returned" /\ config.obfuscate
    /\ HasHostnameSpec(call.conf)
    /\ "hostname" \in RmCommandsOf(call)
    /\ \A i \in DOMAIN log : log[i].ev = "collect_command" => log[i].sym # "hostname"
    /\ hostname_path = "insights_commands/hostname"

FixedArtifacts ==
    {"/branch_info", "/display_name", "/version_info", "/tags.json", "/blacklist_report"}

\* The metadata artifacts come after every item of the log.
MetadataLast ==
    \A i, j \in DOMAIN log : (log[i].ev = "metadata" /\ i < j) => log[j].ev = "metadata"

\* C10 as claimed: in every run_collection that returns, each of the five
\* fixed metadata artifacts is written exactly once, after all items.
C10_Original ==
    rc = "returned" => (MetadataLast /\ \A a \in FixedArtifacts : Count(a) = 1)

\* C10 amended: in every run_collection that returns, /branch_info,
\* /version_info and /blacklist_report are each written exactly once,
\* /display_name exactly once if a display name is configured and not at all
\* otherwise, /tags.json exactly once if get_tags() returns tags and not at
\* all otherwise; all of them after all items have been processed.
C10_MetadataWrittenOnce ==
    rc = "returned" =>
        /\ MetadataLast
        /\ Count("/branch_info") = 1
        /\ Count("/version_info") = 1
        /\ Count("/blacklist_report") = 1
        /\ Count("/display_name") = (IF config.display_name # NoneV THEN 1 ELSE 0)
        /\ Count("/tags.json") = (IF call.host.tags THEN 1 ELSE 0)
        /\ \A i \in DOMAIN log : log[i].ev = "metadata" => log[i].what \in FixedArtifacts

\* C10 witness: no display name is configured and the host has no tags; the
\* run collected an item and returned with the three other artifacts.
C10_Witness ==
    /\ rc = "returned"
    /\ config.display_name = NoneV /\ ~call.host.tags
    /\ \E i \in DOMAIN log : log[i].ev = "collect_command"
    /\ Count("/display_name") = 0 /\ Count("/tags.json") = 0
    /\ Count("/branch_info") = 1 /\ Count("/version_info") = 1
    /\ Count("/blacklist_report") = 1

(***************************************************************************)
(* The claims about the exclusion configuration (SpecLoader).              *)
(***************************************************************************)
\* The structured document in the file, if it is a mapping.
IsMapping == remove_file.exists /\ remove_file.content.yaml.t = "dict"
Doc == remove_file.content.yaml.entries
ExpectedKeySet == {"commands", "files", "patterns", "keywords"}
UnknownKeys == { e.k : e \in { x \in Doc : ~(x.k.t = "str" /\ x.k.s \in ExpectedKeySet) } }

\* C11: for every document that parses to a mapping and has a top-level key
\* outside {commands, files, patterns, keywords}, get_rm_conf raises a
\* configuration error (RuntimeError) whose message names exactly the
\* offending keys, and returns nothing.  (A key that is not a string makes
\* the building of the message raise TypeError instead.)
C11_Original ==
    (loaded.called /\ IsMapping /\ UnknownKeys # {})
        => /\ loaded.exc = "RuntimeError"
           /\ loaded.msg = Msg("unknown_sections", { k.s : k \in UnknownKeys })

\* A list of strings, as the claims mean it.
ListOfStrings(t, items) == t = "list" /\ \A i \in DOMAIN items : items[i].t = "str"
NullOrListOfStrings(t, items) == t = "none" \/ ListOfStrings(t, items)

\* The document has no unknown key and the keys checked before patterns
\* hold a list of strings or nothing, so that patterns decides.
PatternsDecides ==
    /\ IsMapping /\ UnknownKeys = {}
    /\ HasEntry(Doc, "patterns")
    /\ \A e \in Doc : e.k \in {Key("commands"), Key("files")}
                        => NullOrListOfStrings(e.v.t, e.v.items)
Patterns == EntryOf(Doc, "patterns")

\* C12 as claimed: patterns is accepted only if it is a list of strings or
\* an object with the single key regex holding a list of strings; a regex
\* value of null is a hard error.
C12_Original ==
    (loaded.called /\ PatternsDecides) =>
        (loaded.exc = "none" <=>
            \/ ListOfStrings(Patterns.t, Patterns.items)
            \/ /\ Patterns.t = "dict" /\ Patterns.keys = {"regex"}
               /\ ListOfStrings(Patterns.regex.t, Patterns.regex.items))

\* C12 amended: patterns is accepted if and only if it is null, a list of
\* strings, or an object with the single key regex whose value is null or a
\* list of strings; every other shape raises RuntimeError with the message
\* of its sub-case.
C12_PatternsShapes ==
    (loaded.called /\ PatternsDecides) =>
        LET p == Patterns IN
        CASE p.t = "dict" /\ "regex" \notin p.keys ->
                 loaded.exc = "RuntimeError" /\ loaded.msg = Msg("no_regex", {"patterns"})
          [] p.t = "dict" /\ p.keys # {"regex"} ->
                 /\ loaded.exc = "RuntimeError"
                 /\ loaded.msg = Msg("unknown_patterns_keys", {"patterns"})
          [] p.t = "dict" /\ ~NullOrListOfStrings(p.regex.t, p.regex.items) ->
                 /\ loaded.exc = "RuntimeError"
                 /\ loaded.msg = Msg("regex_not_list", {"patterns"})
          [] p.t # "dict" /\ ~NullOrListOfStrings(p.t, p.items) ->
                 loaded.exc = "RuntimeError" /\ loaded.msg = Msg("not_list", {"patterns"})
          [] OTHER -> loaded.exc = "none" /\ loaded.ret.t = "dict"

\* C12 witness: a document whose patterns is {regex: null} was loaded and
\* accepted, and the mapping returned still holds it.
C12_Witness ==
    /\ loaded.called /\ PatternsDecides
    /\ Patterns = PyDict({"regex"}, InNone)
    /\ loaded.exc = "none"
    /\ [k |-> Key("patterns"), v |-> PyDict({"regex"}, InNone)] \in loaded.ret.entries

\* C13: validate returns false without calling get_rm_conf whenever the
\* file does not exist or its mode is not exactly 0600.
C13_ValidateRefusesWithoutParsing ==
    (valid.called /\ (~remove_file.exists \/ remove_file.mode # "0600"))
        => /\ valid.exc = "none"
           /\ valid.ret = "False"
           /\ valid.parses = 0

\* C13 witness: validate was called on an existing file of mode 0644 that
\* holds a well-formed mapping.
C13_Witness ==
    /\ valid.called
    /\ remove_file.exists /\ remove_file.mode = "0644"
    /\ IsMapping /\ get_rm_conf(NewUploadConf, remove_file).exc = "none"
    /\ valid.ret = "False"

\* C14: validate always returns a boolean, and returns true when the file
\* exists, has mode 0600 and get_rm_conf returns a mapping.  (validate reads
\* self.config, which __init__ never sets: it raises AttributeError.)
C14_Original ==
    valid.called =>
        /\ valid.exc = "none"
        /\ valid.ret \in {"True", "False"}
        /\ LET parsed == get_rm_conf(NewUploadConf, remove_file) IN
           (remove_file.exists /\ remove_file.mode = "0600"
              /\ parsed.exc = "none" /\ parsed.ret.t = "dict")
               => valid.ret = "True"

(***************************************************************************)
(* Further claims about the collection run (Spec).                         *)
(***************************************************************************)
\* The pre-command of the spec processed at position i of the log could not
\* be launched: Popen raised OSError.
LaunchFailedAt(i) == log[i].ev = "popen" /\ ~log[i].ok

\* C15: if the pre-command cannot be launched because its binary is not
\* found, the dependent command spec yields no expanded command and no
\* failure: the run goes on after it (with the archive directory set, at
\* least the metadata artifacts follow).  (_run_pre_command returns None
\* there and `for arg in args` raises TypeError.)
C15_Original ==
    (call.made /\ call.archive_dir # NoneV)
        => \A i \in DOMAIN log : LaunchFailedAt(i) => i < Len(log)

(***************************************************************************)
(* Further claims about the archive's life (SpecArchive).                  *)
(***************************************************************************)
\* done ran create_tar_file, which returned: the run is not obfuscated and
\* the output is no directory.
Packaged == fin.called /\ ~config.obfuscate /\ ~config.output_dir /\ fin.exc = "none"

\* create_tar_file gave up: compressor bz2 or xz and a nonzero tar status.
PackagingFailed == Packaged /\ config.compressor \in {"bz2", "xz"} /\ fin.ret = NoneV

\* C16: create_tar_file with compressor bz2 or xz and a nonzero tar exit
\* status returns None, leaves tar_file unset and leaves no partial artifact
\* (no file at the package's path); a later cleanup then deletes the
\* packaging and the working directory even when keep-archive is requested.
\* (What tar wrote before it failed is not removed by create_tar_file.)
C16_Original ==
    PackagingFailed =>
        /\ archive.tar_file = NoneV
        /\ ~Exists(fs, TarFileName(archive))
        /\ cleanups > 0 => (Under(TmpDir) \cup Under(PkgDir)) \cap fs = {}

(***************************************************************************)
(* The claims about the blacklist safety checker (SpecChecker).            *)
(***************************************************************************)
\* The tokens the check is specified over: the top-level shell tokens of
\* the command with `;` read as whitespace, and recursively those of every
\* token that re-tokenizes into more than one token.
RECURSIVE TokensOf(_)
TokensOf(c) ==
    LET top == shlex_split(ReplaceSemicolons(c)) IN
    IF top.err THEN {}
    ELSE Range(top.parts)
         \cup UNION { TokensOf(p) :
                        p \in { q \in Range(top.parts) :
                                  LET again == shlex_split(q)
                                  IN ~again.err /\ Len(again.parts) > 1 } }

\* The command has top-level tokens: its quotes are balanced.
Tokenizes(c) == ~shlex_split(ReplaceSemicolons(c)).err

\* C17: _blacklist_check returns true if and only if some token of the
\* command (top-level, `;` read as whitespace, and nested) is in the
\* blacklist.  (A token that shlex cannot re-tokenize, such as a lone quote
\* that was escaped at the top level, makes the check raise ValueError
\* whatever the other tokens are.)
C17_Original ==
    (verdict # "unchecked" /\ Tokenizes(cmd)) =>
        (verdict = "True" <=> TokensOf(cmd) \cap command_blacklist # {})

(***************************************************************************)
(* Further claims about the exclusion configuration (SpecLoader).          *)
(***************************************************************************)
\* A value that is null, an empty string or an empty list.
Empty(v) ==
    \/ v.t = "none"
    \/ v.t = "str" /\ v.s = <<>>
    \/ v.t = "list" /\ v.items = <<>>

\* C18: for every valid structured document get_rm_conf returns a mapping
\* (not None) that holds exactly the document's keys whose value is not
\* null, an empty string or an empty list; the empty mapping when all the
\* values are empty or null.
C18_EmptyValuesDropped ==
    (loaded.called /\ IsMapping /\ loaded.exc = "none") =>
        /\ loaded.ret.t = "dict"
        /\ loaded.ret.entries = { e \in Doc : ~Empty(e.v) }
        /\ (\A e \in Doc : Empty(e.v)) => loaded.ret = RetDict({})

\* C18 witness: a document with commands null and files an empty list was
\* loaded, and the result is the empty mapping.
C18_Witness ==
    /\ loaded.called /\ IsMapping
    /\ Doc = { [k |-> Key("commands"), v |-> PyNone],
               [k |-> Key("files"), v |-> PyList(<<>>)] }
    /\ loaded.exc = "none"
    /\ loaded.ret = RetDict({})

\* C19: get_rm_conf returns None if and only if the file does not exist; an
\* existing file that parses to an empty document gives the empty mapping.
C19_NoneIffNoFile ==
    loaded.called =>
        /\ (loaded.exc = "none" /\ loaded.ret.t = "None") <=> ~remove_file.exists
        /\ (remove_file.exists /\ remove_file.content.yaml.t = "none")
             => (loaded.exc = "none" /\ loaded.ret = RetDict({}))

\* C19 witness: an existing file holding an empty document was loaded and
\* gave the empty mapping.
C19_Witness ==
    /\ loaded.called
    /\ remove_file.exists /\ remove_file.content.yaml.t = "none"
    /\ loaded.ret = RetDict({})

(***************************************************************************)
(* Further claims about the archive's life (SpecArchive), continued.       *)
(***************************************************************************)
\* The package's path without the compressor's extension.
PackageBase == PkgDir \o "/" \o archive.archive_name \o ".tar"

\* C20: with obfuscate and output_dir false, a successful done returns
\* <packaging dir>/<archive name>.tar.<ext> with ext gz, xz or bz2 as the
\* compressor, and a path ending in .tar for compressor none; the
\* compression flag of the tar command is z, J, j or empty for gz, xz, bz2
\* and none, and z for any other compressor.
C20_PackagePath ==
    (Packaged /\ fin.ret # NoneV) =>
        /\ config.compressor = "gz" => (fin.ret = PackageBase \o ".gz" /\ fin.flag = "z")
        /\ config.compressor = "xz" => (fin.ret = PackageBase \o ".xz" /\ fin.flag = "J")
        /\ config.compressor = "bz2" => (fin.ret = PackageBase \o ".bz2" /\ fin.flag = "j")
        /\ config.compressor = "none" => (fin.ret = PackageBase /\ fin.flag = "")
        /\ config.compressor \notin {"gz", "xz", "bz2", "none"} => fin.flag = "z"
        /\ archive.tar_file = fin.ret

\* C20 witness: done packaged with compressor none and returned the path
\* ending in .tar.
C20_Witness ==
    /\ Packaged
    /\ config.compressor = "none"
    /\ fin.ret = PkgDir \o "/insights-web01-20261103.tar"


\* The events of the log that the file or glob spec with this literal
\* path or pattern gave rise to through its expansion.
ItemsOf(ev, spec) ==
    {i \in DOMAIN log : log[i].ev \in {"collect_" \o ev, "skip_" \o ev} /\ log[i].spec = spec}

\* The file spec at position i is a wildcard spec, not excluded itself,
\* that matched no file; the glob spec at position i matched no path.
ZeroMatchFile(c, i) ==
    /\ HasWildcard(c.conf.files[i].file)
    /\ ~FileExcluded(c.conf.files[i], RmGet(c.rm_conf, "files"))
    /\ c.host.expand = <<>>
ZeroMatchGlob(c, i) == c.conf.has_globs /\ c.host.glob = <<>>

\* The file spec at position i of the catalog was processed: it was
\* skipped or at least one item of it was collected or skipped.
FileProcessed(c, i) ==
    \E j \in DOMAIN log : log[j].ev \in {"collect_file", "skip_file"}
                          /\ log[j].spec = c.conf.files[i].file

\* C21: a wildcard file spec that matches no file, and a glob spec that
\* matches no path, produce no item and no error: nothing is collected or
\* skipped for them, no exception leaves the file and glob loops, every
\* later file spec that matches something is still processed, and the run
\* goes on to the metadata and returns.
C21_ZeroMatchesCollectNothing ==
    (call.made /\ call.archive_dir # NoneV /\ rc # "RuntimeError" /\ rc # "ValueError")
    => /\ \A i \in DOMAIN call.conf.files :
            ZeroMatchFile(call, i)
            => /\ ItemsOf("file", call.conf.files[i].file) = {}
               /\ \A k \in DOMAIN call.conf.files :
                    (k > i /\ ~HasWildcard(call.conf.files[k].file)) => FileProcessed(call, k)
               /\ rc = "returned" /\ Count("/branch_info") = 1
       /\ \A i \in DOMAIN call.conf.globs :
            ZeroMatchGlob(call, i)
            => /\ ItemsOf("glob", call.conf.globs[i].glob) = {}
               /\ rc = "returned" /\ Count("/branch_info") = 1

\* C21 witness: a wildcard file spec and a glob spec both matched nothing,
\* the file spec after the wildcard was collected and the run returned.
C21_Witness ==
    /\ call.made /\ rc = "returned"
    /\ Len(call.conf.files) = 2 /\ ZeroMatchFile(call, 1)
    /\ Len(call.conf.globs) = 1 /\ ZeroMatchGlob(call, 1)
    /\ ItemsOf("file", "/etc/*.conf") = {} /\ ItemsOf("glob", "/var/log/*.log") = {}
    /\ \E j \in DOMAIN log : log[j].ev = "collect_file" /\ log[j].what = "/etc/hosts"


\* The positions of the catalog's command specs with symbolic name "hostname".
HostnameSpecs(conf) ==
    {i \in DOMAIN conf.commands : conf.commands[i].symbolic_name = "hostname"}

FirstHostnameSpec(conf) ==
    conf.commands[CHOOSE i \in HostnameSpecs(conf) : \A j \in HostnameSpecs(conf) : i <= j]

\* C22: when the catalog has several command specs with symbolic name
\* "hostname", the output path recorded once run_collection has returned
\* is that of the first of them in catalog order.  (The loop assigns
\* hostname_path at every such spec, so the last one is recorded.)
C22_Original ==
    (rc = "returned" /\ Cardinality(HostnameSpecs(call.conf)) > 1)
        => hostname_path = HostnamePath(FirstHostnameSpec(call.conf))


\* A remove.conf that says what rm_conf holds: every key of rm_conf with a
\* list of as many strings (is_list_of_strings looks at the types only),
\* patterns as a flat list or as an object {regex: list}.
StringsLike(l) == [i \in DOMAIN l |-> a_str]
RemoveConfEntry(rm_conf, k) ==
    CASE k = "commands" -> PyList(StringsLike(rm_conf.commands))
      [] k = "files" -> PyList(StringsLike(rm_conf.files))
      [] k = "keywords" -> PyList(StringsLike(rm_conf.keywords))
      [] k = "patterns" /\ rm_conf.patterns.kind = "list"
           -> PyList(StringsLike(rm_conf.patterns.items))
      [] OTHER -> PyDict({"regex"}, Inner("list", <<>>, StringsLike(rm_conf.patterns.items)))
RemoveConfOf(rm_conf) ==
    File(TRUE, "0600",
         Content(Yaml("dict", { [k |-> Key(k), v |-> RemoveConfEntry(rm_conf, k)] :
                                  k \in rm_conf.keys }), NoIni))

\* rm_conf is what get_rm_conf returns for some remove.conf: None (no
\* file), or the mapping of an accepted file with every key kept.
LoadAccepts(rm_conf) ==
    \/ rm_conf.is_none
    \/ LET r == get_rm_conf(NewUploadConf, RemoveConfOf(rm_conf))
       IN /\ r.exc = "none" /\ r.ret.t = "dict"
          /\ {e.k : e \in r.ret.entries} = {Key(k) : k \in rm_conf.keys}

\* patterns is a non-empty flat list, or an object with a non-empty regex.
PatternsDefined(rm_conf) ==
    ~rm_conf.is_none /\ "patterns" \in rm_conf.keys /\ rm_conf.patterns.items # <<>>

WithoutPatterns(rm_conf) == [rm_conf EXCEPT !.keys = @ \ {"patterns"}]
IsWarning(e) == e.ev = "warn_patterns"
NotWarning(e) == ~IsWarning(e)

\* C23: for every exclusion config that load accepts, the pattern handling
\* of run_collection never aborts the run: the skip-patterns warning is
\* emitted once exactly when patterns is a non-empty flat list or an
\* object with a non-empty regex list, and the run then does, returns or
\* raises what it does for the same config without patterns.  (A flat list
\* that holds the string "regex" is accepted by load and makes the
\* pattern handling raise TypeError before any command spec.)
C23_Original ==
    (call.made /\ LoadAccepts(call.rm_conf))
    => LET plain == run_collection(config, call.archive_dir, NoneV, call.conf,
                                   WithoutPatterns(call.rm_conf), call.host)
       IN /\ rc = (IF plain.exc = "none" THEN "returned" ELSE plain.exc)
          /\ Len(SelectSeq(log, IsWarning)) = (IF PatternsDefined(call.rm_conf) THEN 1 ELSE 0)
          /\ SelectSeq(log, NotWarning) = plain.log


\* The event hands a command to the command collector; the command spec it
\* came from carries the image flag.
Handed(e) == e.ev = "collect_command"
Flagged(c, e) ==
    \E i \in DOMAIN c.conf.commands :
        c.conf.commands[i].command = e.spec /\ c.conf.commands[i].image
HostMode == config.mountpoint = "/"

\* The command spec at position i, which has no pre-command and is not
\* excluded, was handed to the command collector.
HandedSpec(c, i) ==
    \E j \in DOMAIN log : Handed(log[j]) /\ log[j].what = c.conf.commands[i].command
Plain(c, i) ==
    /\ c.conf.commands[i].pre_command = Absent
    /\ ~CommandExcluded(c.conf.commands[i], RmGet(c.rm_conf, "commands"))

Categories ==
    {"file_static", "file_glob", "file_template", "command_static", "command_template"}
VariantsOf(cat) ==
    CASE cat = "file_static" -> {"simple_file", "first_file"}
      [] cat = "file_glob" -> {"glob_file"}
      [] cat = "file_template" -> {"foreach_collect"}
      [] cat = "command_static" -> {"simple_command"}
      [] cat = "command_template" -> {"command_with_args", "foreach_execute"}

\* The literal strings a descriptor carries.
LiteralsOf(d) ==
    CASE d.cls \in {"simple_file", "foreach_collect"} -> {d.path}
      [] d.cls = "first_file" -> Range(d.paths)
      [] d.cls = "glob_file" -> Range(d.patterns)
      [] d.cls \in {"simple_command", "command_with_args", "foreach_execute"} -> {d.cmd}
      [] OTHER -> {}

\* The literals the descriptors of the input place in a category, and
\* whether the category occurs in the input.
Placed(cat) ==
    UNION { LiteralsOf(ds[i]) : i \in {j \in DOMAIN ds : ds[j].cls \in VariantsOf(cat)} }
Occurs(cat) == \E i \in DOMAIN ds : ds[i].cls \in VariantsOf(cat)

\* l is in strictly ascending order: sorted, and no string twice.
Ascending(l) == \A i, j \in DOMAIN l : i < j => str_lt(l[i], l[j])

Reversed(l) == [i \in DOMAIN l |-> l[Len(l) + 1 - i]]

\* C25: categorize returns exactly one entry for each of the five
\* categories that occurs in the input and none for any other key; the
\* entry is the strictly ascending list of the literal strings of the
\* descriptors whose variant belongs to the category, so a literal of a
\* descriptor is in the list of its variant's category and a descriptor of
\* a derived or unrecognized variant adds nothing; and the result is the
\* same for the input reversed and for the input given twice.
C25_CategorizeReport ==
    report.called
    => /\ {e.k : e \in report.result} = {cat \in Categories : Occurs(cat)}
       /\ \A e, f \in report.result : e.k = f.k => e = f
       /\ \A e \in report.result : Ascending(e.v) /\ Range(e.v) = Placed(e.k)
       /\ categorize(Reversed(ds)) = report.result
       /\ categorize(ds \o ds) = report.result

\* C25 witness: the input has a derived descriptor and two descriptors of
\* one category, out of order and with one literal given twice; the report
\* has that category alone, with its three strings in order.
C25_Witness ==
    /\ report.called
    /\ ds = <<first_file(<<path_b, path_ab, path_b>>), Derived("first_of"), simple_file(path_a)>>
    /\ report.result = { [k |-> "file_static", v |-> <<path_a, path_ab, path_b>>] }
====
